---------------------------- MODULE LeasedClients ----------------------------
(***************************************************************************)
(* What the client pool promises its callers, without saying how: every    *)
(* HTTP client has one life (unborn, serving, leaving, closed), a client   *)
(* is handed out only while it serves, it is disposed of only when nobody  *)
(* holds it any more, at most Capacity clients serve at a time, and one    *)
(* leaves early only to make room for a new one.                           *)
(***************************************************************************)
EXTENDS Naturals, FiniteSets

CONSTANTS Client,     \* every HTTP client the process may ever construct
          Call,       \* the tool calls in flight
          Capacity    \* how many clients may serve at the same time

VARIABLES status,     \* the stage of each client's life
          users,      \* the calls that hold each client
          open        \* FALSE once the pool was shut down

vars == <<status, users, open>>

Stages == {"unborn", "serving", "leaving", "closed"}

Serving == {c \in Client : status[c] = "serving"}

Holding(k) == \E c \in Client : k \in users[c]

Init == /\ status = [c \in Client |-> "unborn"]
        /\ users = [c \in Client |-> {}]
        /\ open = TRUE

(* Client c starts or goes on serving; a full pool lets one other go for a new one. *)
Serve(c) ==
  /\ open
  /\ \/ status[c] = "serving" /\ UNCHANGED status
     \/ /\ status[c] = "unborn"
        /\ Cardinality(Serving) < Capacity
        /\ status' = [status EXCEPT ![c] = "serving"]
     \/ \E victim \in Serving :
          /\ status[c] = "unborn"
          /\ Cardinality(Serving) = Capacity
          /\ status' = [status EXCEPT ![c] = "serving", ![victim] = "leaving"]

Look(c) == Serve(c) /\ UNCHANGED <<users, open>>

HandOut(k, c) ==
  /\ ~Holding(k)
  /\ Serve(c)
  /\ users' = [users EXCEPT ![c] = @ \cup {k}]
  /\ UNCHANGED open

GiveBack(k, c) ==
  /\ k \in users[c]
  /\ users' = [users EXCEPT ![c] = @ \ {k}]
  /\ UNCHANGED <<status, open>>

Dispose(c) ==
  /\ status[c] = "leaving"
  /\ users[c] = {}
  /\ status' = [status EXCEPT ![c] = "closed"]
  /\ UNCHANGED <<users, open>>

ShutDown ==
  /\ open
  /\ open' = FALSE
  /\ status' = [c \in Client |-> IF status[c] = "serving" THEN "leaving" ELSE status[c]]
  /\ UNCHANGED users

Next == \/ \E c \in Client : Look(c) \/ Dispose(c)
        \/ \E k \in Call, c \in Client : HandOut(k, c) \/ GiveBack(k, c)
        \/ ShutDown

Spec == Init /\ [][Next]_vars
=============================================================================

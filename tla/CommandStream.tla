--------------------------- MODULE CommandStream ---------------------------
(***************************************************************************)
(* What woo::xl320::Service promises to the user of registerCommand: the   *)
(* orders that go out on the serial line are exactly the orders of the     *)
(* registered commands, in registration order, each once; commandEnded is  *)
(* emitted once for each command, in the same order, and only after the    *)
(* last order of the command went out.  Timers, answers, the io_service    *)
(* queue and restarts of the service are not visible at this level.        *)
(***************************************************************************)
EXTENDS Naturals, Sequences

CONSTANT Orders        \* the orders a command may hold

VARIABLES registered,  \* the commands registered so far, each a sequence of orders
          served,      \* how many of them have ended
          pos,         \* how many orders of command served + 1 went out
          wire         \* the orders that went out on the serial line

vars == <<registered, served, pos, wire>>

TypeOK ==
    /\ registered \in Seq(Seq(Orders))
    /\ served \in 0..Len(registered)
    /\ pos \in Nat
    /\ wire \in Seq(Orders)

Init ==
    /\ registered = <<>>
    /\ served = 0
    /\ pos = 0
    /\ wire = <<>>

(* The command being served, when there is one. *)
Current == registered[served + 1]

Register ==
    /\ registered' \in Seq(Seq(Orders))
    /\ Len(registered') = Len(registered) + 1
    /\ SubSeq(registered', 1, Len(registered)) = registered
    /\ UNCHANGED <<served, pos, wire>>

Send ==
    /\ served < Len(registered)
    /\ pos < Len(Current)
    /\ pos' = pos + 1
    /\ wire' = Append(wire, Current[pos + 1])
    /\ UNCHANGED <<registered, served>>

Finish ==
    /\ served < Len(registered)
    /\ pos = Len(Current)
    /\ served' = served + 1
    /\ pos' = 0
    /\ UNCHANGED <<registered, wire>>

Next == Register \/ Send \/ Finish

Spec == Init /\ [][Next]_vars
=============================================================================

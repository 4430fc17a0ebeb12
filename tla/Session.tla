------------------------------ MODULE Session -------------------------------
(***************************************************************************)
(* What a user of the XLCMD terminal is promised (README.md of XLCMD): one *)
(* reply for each line, in order; SEL chooses the servos that the commands *)
(* after it are about; a value comes from the servo it is shown for.       *)
(***************************************************************************)
EXTENDS Integers, SequencesExt

CONSTANTS
    Command(_),         \* what a line means: its kind and its arguments
    Shown(_),           \* the values a servo may be shown with
    Servos,             \* the ids on the line
    FirstSelection

VARIABLES
    selection,          \* the selected ids
    log                 \* the lines handled, each with its reply

Init == selection = FirstSelection /\ log = <<>>

(* Whether the values of a reply are right for a command on these servos.    *)
Right(cmd, values, chosen) ==
    CASE cmd.kind = "get" ->
            /\ Len(values) = Len(chosen)
            /\ \A i \in 1..Len(values) : values[i] \in Shown(chosen[i])
      [] cmd.kind = "set" ->
            /\ Len(values) = Len(chosen)
            /\ \A i \in 1..Len(values) :
                    i <= Len(cmd.args) => values[i] = cmd.args[i]
      [] cmd.kind \in {"select", "selected"} -> values = chosen
      [] cmd.kind = "ping" -> ToSet(values) \subseteq Servos
      [] OTHER -> TRUE

Says(kind) == CASE kind = "hello" -> "OK"
                [] kind = "mistake" -> "error"
                [] OTHER -> "values"

Handle(line, reply) ==
    LET cmd == Command(line) IN
    /\ selection' = IF cmd.kind = "select"
                    THEN [i \in 1..Len(cmd.args) |-> cmd.args[i] % 256]
                    ELSE selection
    /\ reply.said = Says(cmd.kind)
    /\ Right(cmd, reply.values, selection')

Next == /\ Len(log') = Len(log) + 1 /\ SubSeq(log', 1, Len(log)) = log
        /\ Handle(Last(log').line, Last(log').reply)

Spec == Init /\ [][Next]_<<selection, log>>
=============================================================================
